---- MODULE Spec2Model ----
(***************************************************************************)
(* A model of pyolimp's loss / model / distortion configuration layer      *)
(* (olimp/precompensation/nn/train/config), of the bound loss callables    *)
(* it produces, and of the SSIM and NRMSE metrics of olimp/evaluation/loss.*)
(*                                                                         *)
(* Python values are modelled as follows.  A configuration record is a     *)
(* function from field names to values, every value written as the string *)
(* of its Python literal.  An image tensor is an integer v standing for    *)
(* the pixel value v / Scale (so the interval [0,1] is 0..Scale).  An      *)
(* exception is a record [kind |-> "error", err |-> <exception type>].     *)
(***************************************************************************)
EXTENDS Integers, Sequences, FiniteSets, TLC

VARIABLES
    rec,        \* the raw record handed to the last validation
    via,        \* the entry point used: a union name or a class name
    cfg,        \* what the validation produced: a configuration or an error
    instance,   \* what Model.get_instance() returned, if it was called
    loadIn,     \* the method last called on cfg and the model handed to it
    bound,      \* what that method call produced
    callIn,     \* the arguments of the last call of the bound callable
    callOut,    \* what that call produced
    metricOut,  \* what the wrapped metric returned or raised in that call
    tensorOps,  \* tensor operations (distortions, metrics) run by the last step
    ssim,       \* the SSIMLoss instance (kernel size and kernel device)
    ssimKw,     \* the keyword arguments SSIMLoss was constructed with
    ssimIn,     \* the arguments of the last SSIMLoss.forward call
    ssimOut,    \* what that call produced
    nrmse,      \* the NormalizedRootMSE instance, or the constructor's error
    nrmseIn,    \* the arguments of the last NormalizedRootMSE.forward call
    nrmseOut,   \* what that call produced
    rng,        \* draws made so far from torch's global random generator
    genIn,      \* the arguments of a generate_random_neighbors call
    genOut,     \* what that call returned
    genOut2,    \* what a later call with the same arguments returned
    rmsIn,      \* the arguments of the last RMS call
    rmsOut,     \* what that call produced
    rmsReads,   \* the pixel indices that call handed to pixel_contrasts
    scaleIn,    \* the arguments of the last scale_value call
    scaleOut    \* what that call produced

cfgVars == <<rec, via, cfg, instance, loadIn, bound, callIn, callOut, metricOut,
            tensorOps>>
ssimVars == <<ssim, ssimKw, ssimIn, ssimOut>>
nrmseVars == <<nrmse, nrmseIn, nrmseOut>>
rmsVars == <<rng, genIn, genOut, genOut2, rmsIn, rmsOut, rmsReads>>
procVars == <<scaleIn, scaleOut>>
vars == <<cfgVars, ssimVars, nrmseVars, rmsVars, procVars>>

None == [kind |-> "none"]
Error(e) == [kind |-> "error", err |-> e]

Min(a, b) == IF a < b THEN a ELSE b
Max(a, b) == IF a > b THEN a ELSE b

\* the sum of the elements of a sequence
RECURSIVE Sum(_)
Sum(q) == IF q = <<>> THEN 0 ELSE Head(q) + Sum(Tail(q))

(***************************************************************************)
(* Bounds of the model.                                                    *)
(***************************************************************************)
\* pixel value v stands for v / Scale
Scale == 2
\* a raw record carries at most this many keys besides `name`
MaxKeys == 2
\* longest `datums` list handed to a bound callable
MaxDatums == 3
\* longest `distortions` list handed to a bound callable
MaxDistortions == 2
\* largest kernel_size an SSIMLoss is constructed with
MaxKernel == 3
\* largest height and width of an image batch
MaxSide == 2
\* longest (flattened) tensor handed to NormalizedRootMSE
MaxLen == 2
\* NRMSE pixel values range over -MaxPixel..MaxPixel
MaxPixel == 1
\* largest n_pixel_neighbors of an RMS call
MaxNeighbors == 2
\* most draws taken from torch's global random generator
MaxGlobalDraws == 2

(***************************************************************************)
(* base.py: StrictModel                                                    *)
(***************************************************************************)
StrictModelExtraIgnore == "ignore"
StrictModelExtra == "forbid"

(***************************************************************************)
(* loss_function.py, model.py, distortion.py: the record classes           *)
(***************************************************************************)
LossClasses ==
    {"VaeLossFunction", "ColorBlindnessLossFunction", "MSELossFucntion",
     "PSNRLossFunction", "NRMSELossFuction", "StressLossFunction",
     "CorrLossFunction", "SSIMLossFunction", "MultiScaleSSIMLossFunction",
     "FSIMLossFunction", "RMSLossFunction", "CDLossFunction"}

ModelClasses ==
    {"VDSR", "VAE", "CVAE", "UNET_b0", "PrecompensationUSRNet",
     "PrecompensationDWDN",
     "Generator_transformer_pathch4_844_48_3_nouplayer_server5"}

DistortionClasses == {"RefractionDistortionConfig"}

AllClasses == LossClasses \cup ModelClasses \cup DistortionClasses

\* the members of the Annotated unions
LossFunction ==
    {"VaeLossFunction", "ColorBlindnessLossFunction",
     "MultiScaleSSIMLossFunction", "RMSLossFunction", "CDLossFunction"}

Model == ModelClasses

Unions == {"LossFunction", "Model"}
UnionMembers(u) == IF u = "LossFunction" THEN LossFunction ELSE Model

\* name: Literal[...] of each class
Tag(cls) ==
    CASE cls = "VaeLossFunction" -> "Vae"
      [] cls = "ColorBlindnessLossFunction" -> "ColorBlindnessLoss"
      [] cls = "MSELossFucntion" -> "MSE"
      [] cls = "PSNRLossFunction" -> "PSNR"
      [] cls = "NRMSELossFuction" -> "NRMSE"
      [] cls = "StressLossFunction" -> "STRESS"
      [] cls = "CorrLossFunction" -> "CORR"
      [] cls = "SSIMLossFunction" -> "SSIM"
      [] cls = "MultiScaleSSIMLossFunction" -> "MS_SSIM"
      [] cls = "FSIMLossFunction" -> "FSIM"
      [] cls = "RMSLossFunction" -> "RMS"
      [] cls = "CDLossFunction" -> "CD"
      [] cls = "VDSR" -> "vdsr"
      [] cls = "VAE" -> "vae"
      [] cls = "CVAE" -> "cvae"
      [] cls = "UNET_b0" -> "unet_b0"
      [] cls = "PrecompensationUSRNet" -> "precompensationusrnet"
      [] cls = "PrecompensationDWDN" -> "precompensationdwdn"
      [] cls = "Generator_transformer_pathch4_844_48_3_nouplayer_server5" ->
             "Generator_transformer_pathch4_844_48_3_nouplayer_server5"
      [] cls = "RefractionDistortionConfig" -> "refraction_datasets"

\* the fields declared without a default (besides `name`)
Required(cls) ==
    CASE cls = "ColorBlindnessLossFunction" -> {"type"}
      [] cls \in {"RMSLossFunction", "CDLossFunction"} -> {"color_space"}
      [] cls = "RefractionDistortionConfig" -> {"psf"}
      [] OTHER -> {}

\* the fields declared with a default, and the default
Defaults(cls) ==
    CASE cls = "ColorBlindnessLossFunction" ->
             [degree |-> "100", lambda_ssim |-> "0.25", global_points |-> "3000"]
      [] cls = "NRMSELossFuction" -> [invert |-> "False"]
      [] cls \in {"SSIMLossFunction", "MultiScaleSSIMLossFunction"} ->
             [kernel_size |-> "11", kernel_sigma |-> "1.5",
              k1 |-> "0.01", k2 |-> "0.03"]
      [] cls = "FSIMLossFunction" ->
             [reduction |-> "mean", data_range |-> "1.0", chromatic |-> "True",
              scales |-> "4", orientations |-> "4", min_length |-> "6",
              mult |-> "2", sigma_f |-> "0.55", delta_theta |-> "1.2",
              k |-> "2.0"]
      [] cls = "RMSLossFunction" ->
             [n_pixel_neighbors |-> "1000", step |-> "10", sigma_rate |-> "0.25"]
      [] cls = "CDLossFunction" -> [lightness_weight |-> "0"]
      [] cls \in {"VDSR", "VAE", "CVAE", "UNET_b0",
                  "Generator_transformer_pathch4_844_48_3_nouplayer_server5"} ->
             [path |-> "None"]
      [] cls = "PrecompensationUSRNet" ->
             [path |-> "None", n_iter |-> "8", h_nc |-> "64", in_nc |-> "4",
              out_nc |-> "3", nc |-> "[64, 128, 256, 512]", nb |-> "2"]
      [] cls = "PrecompensationDWDN" -> [n_levels |-> "1", path |-> "None"]
      [] OTHER -> <<>>

Declared(cls) == {"name"} \cup Required(cls) \cup DOMAIN Defaults(cls)

\* the methods each class defines besides the constructor
Methods(cls) ==
    CASE cls = "CorrLossFunction" -> {"laod"}
      [] cls \in LossClasses -> {"load"}
      [] cls \in ModelClasses -> {"get_instance"}
      [] OTHER -> {"load"}

(***************************************************************************)
(* The raw records of the model: the values offered for each key.  A value *)
(* is accepted for a field when the field's annotation admits it.          *)
(***************************************************************************)
NameInputs == {Tag(c) : c \in AllClasses} \cup {"VAE", "mse", "Unknown"}

InputKeys ==
    {"type", "color_space", "invert", "path", "n_levels", "psf", "bogus",
     "degree", "lambda_ssim", "step"}

InputValues(key) ==
    CASE key = "name" -> NameInputs
      [] key = "type" -> {"protan", "tritan"}
      [] key = "color_space" -> {"lab", "xyz"}
      [] key = "invert" -> {"True", "maybe"}
      [] key = "path" -> {"weights.pth", "None"}
      [] key = "n_levels" -> {"2", "many"}
      [] key = "psf" -> {"PsfDataloaderConfig", "garbage"}
      [] key = "bogus" -> {"1"}
      [] key = "degree" -> {"20", "15"}
      [] key = "lambda_ssim" -> {"0.5", "1.5", "-0.5"}
      [] key = "step" -> {"10", "0"}

AllInputValues == UNION {InputValues(k) : k \in InputKeys \cup {"name"}}

\* Degree: TypeAlias = Literal[10, 20, ..., 100]
Degree == {"10", "20", "30", "40", "50", "60", "70", "80", "90", "100"}

\* the float and the int literals among the values offered
Floats == {"0.5", "1.5", "-0.5", "0.25", "0", "1", "10", "15", "20"}
Ints == {"0", "1", "10", "15", "20", "1000", "3000"}

\* does the annotation of `field` admit value v.  lambda_ssim is annotated
\* Annotated[float, confloat(ge=0, le=1)]: the type is float, and the
\* confloat(...) object is metadata pydantic does not know, so no bound is
\* applied.
Admits(field, v) ==
    CASE field = "type" -> v \in {"protan", "deutan"}
      [] field = "color_space" -> v \in {"lab", "prolab"}
      [] field = "invert" -> v \in {"True", "False"}
      [] field = "path" -> TRUE
      [] field = "n_levels" -> v \in {"1", "2"}
      [] field = "psf" -> v = "PsfDataloaderConfig"
      [] field = "degree" -> v \in Degree
      [] field = "lambda_ssim" -> v \in Floats
      [] field = "step" -> v \in Ints
      [] OTHER -> TRUE

RECURSIVE RecordsOver(_)
RecordsOver(K) ==
    IF K = {} THEN {<<>>}
    ELSE LET k == CHOOSE x \in K : TRUE
         IN  {r @@ (k :> v) : r \in RecordsOver(K \ {k}), v \in InputValues(k)}

RawRecords ==
    UNION {RecordsOver(K) :
           K \in {K \in SUBSET (InputKeys \cup {"name"}) :
                      Cardinality(K \ {"name"}) <= MaxKeys}}

(***************************************************************************)
(* pydantic validation of a raw record against one class, and against a    *)
(* union discriminated by `name`.                                          *)
(***************************************************************************)
\* str.lower() on the names of the model
Lower(s) ==
    CASE s \in {"Vae", "VAE"} -> "vae"
      [] s = "ColorBlindnessLoss" -> "colorblindnessloss"
      [] s = "MSE" -> "mse"
      [] s = "PSNR" -> "psnr"
      [] s = "NRMSE" -> "nrmse"
      [] s = "STRESS" -> "stress"
      [] s = "CORR" -> "corr"
      [] s = "SSIM" -> "ssim"
      [] s = "MS_SSIM" -> "ms_ssim"
      [] s = "FSIM" -> "fsim"
      [] s = "RMS" -> "rms"
      [] s = "CD" -> "cd"
      [] s = "Generator_transformer_pathch4_844_48_3_nouplayer_server5" ->
             "generator_transformer_pathch4_844_48_3_nouplayer_server5"
      [] s = "Unknown" -> "unknown"
      [] OTHER -> s

TagMatchesIgnoringCase(tag, name) == Lower(tag) = Lower(name)

\* Literal[...] of `name`, and the discriminator lookup, compare exactly
TagMatches(tag, name) == tag = name

ValidateClass(cls, r) ==
    LET keys == DOMAIN r
        extra == keys \ Declared(cls)
        kept == IF StrictModelExtra = "ignore" THEN keys \ extra ELSE keys
    IN  IF "name" \notin keys THEN Error("ValidationError")
        ELSE IF ~TagMatches(Tag(cls), r["name"]) THEN Error("ValidationError")
        ELSE IF Required(cls) \ keys # {} THEN Error("ValidationError")
        ELSE IF StrictModelExtra = "forbid" /\ extra # {}
             THEN Error("ValidationError")
        ELSE IF \E k \in (keys \cap Declared(cls)) \ {"name"} : ~Admits(k, r[k])
             THEN Error("ValidationError")
        ELSE [kind |-> "config", cls |-> cls,
              fields |-> [k \in kept \cup DOMAIN Defaults(cls) |->
                             IF k = "name" THEN Tag(cls)
                             ELSE IF k \in keys THEN r[k]
                             ELSE Defaults(cls)[k]]]

ValidateUnion(u, r) ==
    IF "name" \notin DOMAIN r THEN Error("ValidationError")
    ELSE LET hit == {c \in UnionMembers(u) : TagMatches(Tag(c), r["name"])}
         IN  IF hit = {} THEN Error("ValidationError")
             ELSE ValidateClass(CHOOSE c \in hit : TRUE, r)

(***************************************************************************)
(* The state after start-up: nothing constructed yet.  A configuration is  *)
(* constructed once, from one raw record, then loaded and called.          *)
(***************************************************************************)
CfgInit ==
    /\ rec = <<>>
    /\ via = "none"
    /\ cfg = None
    /\ instance = None
    /\ loadIn = None
    /\ bound = None
    /\ callIn = None
    /\ callOut = None
    /\ metricOut = None
    /\ tensorOps = 0

SsimIdle == ssim = None /\ ssimKw = None /\ ssimIn = None /\ ssimOut = None
NrmseIdle == nrmse = None /\ nrmseIn = None /\ nrmseOut = None
RmsIdle ==
    /\ rng = 0
    /\ genIn = None
    /\ genOut = None
    /\ genOut2 = None
    /\ rmsIn = None
    /\ rmsOut = None
    /\ rmsReads = {}
ProcIdle == scaleIn = None /\ scaleOut = None

\* TypeAdapter(LossFunction).validate_python(r), TypeAdapter(Model)...
ValidateThroughUnion ==
    /\ via = "none"
    /\ \E u \in Unions, r \in RawRecords :
          /\ rec' = r
          /\ via' = u
          /\ cfg' = ValidateUnion(u, r)
    /\ UNCHANGED <<instance, loadIn, bound, callIn, callOut, metricOut, tensorOps>>
    /\ UNCHANGED <<ssimVars, nrmseVars, rmsVars, procVars>>

\* cls(**r)
Construct ==
    /\ via = "none"
    /\ \E cls \in AllClasses, r \in RawRecords :
          /\ rec' = r
          /\ via' = cls
          /\ cfg' = ValidateClass(cls, r)
    /\ UNCHANGED <<instance, loadIn, bound, callIn, callOut, metricOut, tensorOps>>
    /\ UNCHANGED <<ssimVars, nrmseVars, rmsVars, procVars>>

(***************************************************************************)
(* loss_function.py: load() of each class and the callables it returns     *)
(***************************************************************************)
Callable(impl, arity, metric) ==
    [kind |-> "callable", impl |-> impl, arity |-> arity, metric |-> metric]

\* the metric object each load() builds, with the keyword arguments it passes
MetricOf(cls, fields) ==
    CASE cls = "MSELossFucntion" -> [cls |-> "MSE", kwargs |-> <<>>]
      [] cls = "PSNRLossFunction" -> [cls |-> "PSNR", kwargs |-> <<>>]
      [] cls = "NRMSELossFuction" ->
             [cls |-> "NormalizedRootMSE",
              kwargs |-> [invert |-> fields["invert"]]]
      [] cls = "StressLossFunction" -> [cls |-> "STRESS", kwargs |-> <<>>]
      [] cls = "CorrLossFunction" -> [cls |-> "Correlation", kwargs |-> <<>>]
      [] cls = "SSIMLossFunction" ->
             [cls |-> "SSIMLoss",
              kwargs |-> [k \in {"kernel_size", "kernel_sigma", "k1", "k2"} |->
                             fields[k]]]
      [] cls = "MultiScaleSSIMLossFunction" ->
             [cls |-> "MultiScaleSSIMLoss",
              kwargs |-> [k \in {"kernel_size", "kernel_sigma", "k1", "k2"} |->
                             fields[k]]]
      [] cls = "FSIMLossFunction" ->
             [cls |-> "FSIMLoss",
              kwargs |-> [k \in DOMAIN Defaults("FSIMLossFunction") |-> fields[k]]]
      [] cls = "RMSLossFunction" ->
             [cls |-> "RMS",
              kwargs |-> [k \in {"color_space", "n_pixel_neighbors", "step",
                                 "sigma_rate"} |-> fields[k]]]
      [] cls = "CDLossFunction" ->
             [cls |-> "CD",
              kwargs |-> [k \in {"color_space", "lightness_weight"} |-> fields[k]]]
      [] cls = "ColorBlindnessLossFunction" ->
             [cls |-> "ColorBlindnessLoss",
              kwargs |-> [cb_type |-> fields["type"], degree |-> fields["degree"],
                          lambda_ssim |-> fields["lambda_ssim"],
                          global_points |-> fields["global_points"]]]
      [] cls = "VaeLossFunction" -> [cls |-> "vae_loss", kwargs |-> <<>>]

\* the assertion of VaeLossFunction.load on type(model).__name__
VaeCompatibleOnlyVAE(typeName) == typeName = "VAE"
VaeCompatible(typeName) == typeName \in {"VAE", "CVAE"}

\* the body of the load (laod, for CorrLossFunction) method of a loss class
LoadBody(cls, fields, typeName) ==
    CASE cls = "VaeLossFunction" ->
             IF VaeCompatible(typeName)
             THEN Callable("vae", 3, MetricOf(cls, fields))
             ELSE Error("AssertionError")
      [] cls = "ColorBlindnessLossFunction" ->
             Callable("cbl", 2, MetricOf(cls, fields))
      [] OTHER -> Callable("simple", 3, MetricOf(cls, fields))

\* cfg.<method>(model): attribute lookup, then the body
CallMethod(c, method, typeName) ==
    IF method \notin Methods(c.cls) THEN Error("AttributeError")
    ELSE LoadBody(c.cls, c.fields, typeName)

\* type(model).__name__ of the objects handed to load()
ModelTypeNames == {"VAE", "CVAE", "VDSR", "vae", "NoneType"}

\* cfg.load(model) or cfg.laod(model) on a loss configuration
Load ==
    /\ cfg.kind = "config"
    /\ cfg.cls \in LossClasses
    /\ \E method \in {"load", "laod"}, typeName \in ModelTypeNames :
          /\ loadIn' = [kind |-> "load", method |-> method, model |-> typeName]
          /\ bound' = CallMethod(cfg, method, typeName)
    /\ callIn' = None
    /\ callOut' = None
    /\ metricOut' = None
    /\ tensorOps' = 0
    /\ UNCHANGED <<rec, via, cfg, instance>>
    /\ UNCHANGED <<ssimVars, nrmseVars, rmsVars, procVars>>

(***************************************************************************)
(* model.py: get_instance();  distortion.py: load()                        *)
(***************************************************************************)
\* the class each get_instance() imports
ModelType(cls) ==
    IF cls = "UNET_b0" THEN "PrecompensationUNETB0" ELSE cls

\* the keyword arguments get_instance() passes to the constructor
CtorKwargs(cls, fields) ==
    CASE cls = "PrecompensationUSRNet" ->
             [k \in {"n_iter", "h_nc", "in_nc", "out_nc", "nc", "nb"} |-> fields[k]]
      [] cls = "PrecompensationDWDN" -> [n_levels |-> fields["n_levels"]]
      [] OTHER -> <<>>

GetInstanceBody(cls, fields) ==
    IF fields["path"] # "None"
    THEN [kind |-> "instance", type |-> ModelType(cls), ctor |-> "from_path",
          kwargs |-> [path |-> fields["path"]]]
    ELSE [kind |-> "instance", type |-> ModelType(cls), ctor |-> "__init__",
          kwargs |-> CtorKwargs(cls, fields)]

GetInstance ==
    /\ cfg.kind = "config"
    /\ cfg.cls \in ModelClasses
    /\ instance' = GetInstanceBody(cfg.cls, cfg.fields)
    /\ tensorOps' = 0
    /\ UNCHANGED <<rec, via, cfg, loadIn, bound, callIn, callOut, metricOut>>
    /\ UNCHANGED <<ssimVars, nrmseVars, rmsVars, procVars>>

LoadDistortion ==
    /\ cfg.kind = "config"
    /\ cfg.cls \in DistortionClasses
    /\ loadIn' = [kind |-> "load", method |-> "load", model |-> "NoneType"]
    /\ bound' = [kind |-> "distortion", dataset |-> cfg.fields["psf"],
                 cls |-> "RefractionDistortion"]
    /\ tensorOps' = 0
    /\ UNCHANGED <<rec, via, cfg, instance, callIn, callOut, metricOut>>
    /\ UNCHANGED <<ssimVars, nrmseVars, rmsVars, procVars>>

(***************************************************************************)
(* loss_function.py: the bound callables.  A distortion of the list is an  *)
(* integer offset d: distortion(d_input)(precompensated) is the raw value  *)
(* precompensated + d_input + d, which may leave 0..Scale.                 *)
(***************************************************************************)
Apply(d, dInput, modelOutput) == modelOutput[1] + dInput + d

ClipNothing(v) == v
Clip(v) == Max(0, Min(Scale, v))

ZipStrictOff == FALSE
ZipStrict == TRUE

Outcome(kind, err, applied, simulated, metricArgs) ==
    [kind |-> kind, err |-> err, applied |-> applied, simulated |-> simulated,
     metricArgs |-> metricArgs]

\* f of _create_simple_loss.  `applied` lists the (distortion, datum) index
\* pairs the loop ran (1-based: pair <<i, i + 1>> is distortions[i-1] on
\* datums[i] of the source); metricArgs lists the metric's invocations.
SimpleLossF(modelOutput, datums, distortions) ==
    LET tail == Max(Len(datums) - 1, 0)
        k == Min(Len(distortions), tail)
        applied == [i \in 1..k |-> <<i, i + 1>>]
        raw == [i \in 1..k |-> Apply(distortions[i], datums[i + 1], modelOutput)]
        distorted == [i \in 1..k |-> Clip(raw[i])]
    IN  IF ZipStrict /\ Len(distortions) # tail
        THEN Outcome("error", "ValueError", applied, distorted, <<>>)
        ELSE IF Len(datums) = 0
        THEN Outcome("error", "IndexError", applied, distorted, <<>>)
        ELSE IF Len(distorted) # 1
        THEN Outcome("error", "AssertionError", applied, distorted, <<>>)
        ELSE Outcome("value", "", applied, distorted,
                     << <<distorted[1], datums[1]>> >>)

\* f of VaeLossFunction.load
VaeF(modelOutput, datums, distortions) ==
    IF Len(distortions) # 1
    THEN Outcome("error", "AssertionError", <<>>, <<>>, <<>>)
    ELSE IF Len(datums) < 2
    THEN Outcome("error", "IndexError", <<>>, <<>>, <<>>)
    ELSE LET retinal == Apply(distortions[1], datums[2], modelOutput)
         IN  Outcome("value", "", << <<1, 2>> >>, <<retinal>>,
                     << <<retinal, datums[1]>> \o Tail(modelOutput) >>)

\* f of ColorBlindnessLossFunction.load
ColorBlindnessF(modelOutput, datums) ==
    IF Len(datums) # 1 \/ Len(modelOutput) # 1
    THEN Outcome("error", "ValueError", <<>>, <<>>, <<>>)
    ELSE Outcome("value", "", <<>>, <<>>, << <<datums[1], modelOutput[1]>> >>)

\* bound(*args): the signature check, then the body
CallBody(b, args) ==
    IF Len(args) # b.arity THEN Outcome("error", "TypeError", <<>>, <<>>, <<>>)
    ELSE CASE b.impl = "simple" -> SimpleLossF(args[1], args[2], args[3])
           [] b.impl = "vae" -> VaeF(args[1], args[2], args[3])
           [] b.impl = "cbl" -> ColorBlindnessF(args[1], args[2])

\* the argument lists offered to a bound callable
RECURSIVE SeqsUpTo(_, _)
SeqsUpTo(S, n) ==
    IF n = 0 THEN {<<>>}
    ELSE LET shorter == SeqsUpTo(S, n - 1)
         IN  shorter \cup {Append(q, x) : q \in {t \in shorter : Len(t) = n - 1},
                                           x \in S}

DatumValues == {0, 1}
DistortionOffsets == {-2, 1}
ModelOutputs(impl) ==
    IF impl = "vae" THEN {<<p, 0, 0>> : p \in {0, Scale}}
    ELSE {<<p>> : p \in {0, Scale}}

ArgLists(impl) ==
    LET two == {<<m, d>> : m \in ModelOutputs(impl),
                           d \in SeqsUpTo(DatumValues, MaxDatums)}
    IN  two \cup {Append(a, ds) : a \in two,
                                  ds \in SeqsUpTo(DistortionOffsets, MaxDistortions)}

(***************************************************************************)
(* evaluation/loss/ssim.py: SSIMLoss.  A tensor is described by its device *)
(* and shape; the kernel is cached in the instance.                        *)
(***************************************************************************)
Devices == {"cpu", "cuda:0", "cuda:1"}
IsCuda(device) == device # "cpu"

\* __init__, line 10: kernel_size: int = 11
DefaultKernelSize == 11
\* the weights below are kept in hundredths
WeightUnit == 100

\* _create_gaussian_kernel, lines 80-84: exp(-(d / sigma)^2 / 2) over
\* d = (1 - k) / 2, ..., (k - 1) / 2, divided by its sum, for sigma = 1.5;
\* in hundredths, each row summing to WeightUnit
GaussianWeights(kernel_size) ==
    CASE kernel_size = 1 -> <<100>>
      [] kernel_size = 2 -> <<50, 50>>
      [] kernel_size = 3 -> <<31, 38, 31>>
      [] kernel_size = 4 -> <<20, 30, 30, 20>>
      [] kernel_size = 5 -> <<12, 23, 30, 23, 12>>
      [] kernel_size = 11 -> <<0, 1, 4, 11, 21, 26, 21, 11, 4, 1, 0>>

\* _create_gaussian_kernel: arange((1 - k) / 2, (1 + k) / 2, 1) has k
\* elements, the kernel is the outer product of the weights with themselves,
\* expanded to (3, 1, k, k), on the default device
CreateGaussianKernel(kernel_size) ==
    [device |-> "cpu", shape |-> <<3, 1, kernel_size, kernel_size>>,
     weights |-> GaussianWeights(kernel_size)]

SsimInit(kernel_size, sigma) ==
    [kind |-> "SSIMLoss", kernel_size |-> kernel_size, sigma |-> sigma,
     gaussian_kernel |-> CreateGaussianKernel(kernel_size)]

\* SSIMLoss(**kwargs): Python binds the keywords to the parameters of
\* __init__(self, kernel_size=11, sigma=1.5) before the body runs
SsimParameters == {"kernel_size", "sigma"}
SsimNew(kwargs) ==
    IF ~(DOMAIN kwargs \subseteq SsimParameters) THEN Error("TypeError")
    ELSE SsimInit(IF "kernel_size" \in DOMAIN kwargs THEN kwargs["kernel_size"]
                  ELSE DefaultKernelSize,
                  "1.5")

\* forward, lines 27-28: the device of the kernel after the migration step
MigratedDeviceStale(kernelDevice, xDevice) == kernelDevice
MigratedDevice(kernelDevice, xDevice) ==
    IF ~IsCuda(kernelDevice) THEN xDevice ELSE kernelDevice

\* A tensor is [device, shape, data].  data is one plane (a sequence of rows)
\* per batch element, the three channel planes of an element being equal, or
\* <<>> when the contents are left open.  A pixel level p stands for p / Scale.
Tracked(t) == t.data # <<>>

\* one element of the convolution of a zero-padded plane with the kernel
ConvAt(plane, weights, padding, oi, oj) ==
    Sum([i \in 1..Len(plane) |->
         Sum([j \in 1..Len(plane[1]) |->
              LET ti == i + padding - oi + 1
                  tj == j + padding - oj + 1
              IN  IF ti \in 1..Len(weights) /\ tj \in 1..Len(weights)
                  THEN weights[ti] * weights[tj] * plane[i][j]
                  ELSE 0])])

\* F.conv2d(input, kernel, padding=padding, groups=3) on one input: the
\* result (its elements in units of 1 / WeightUnit^2), or the failure
Conv2d(input, kernel, padding) ==
    IF input.device # kernel.device THEN Error("RuntimeError")
    ELSE IF input.shape[2] # 3 THEN Error("RuntimeError")
    ELSE LET k == kernel.shape[3]
             h == input.shape[3] + 2 * padding - k + 1
             w == input.shape[4] + 2 * padding - k + 1
         IN  IF h < 1 \/ w < 1 THEN Error("RuntimeError")
             ELSE [kind |-> "tensor", device |-> input.device,
                   shape |-> <<input.shape[1], 3, h, w>>,
                   data |-> [n \in DOMAIN input.data |->
                               [oi \in 1..h |-> [oj \in 1..w |->
                                   ConvAt(input.data[n], kernel.weights,
                                          padding, oi, oj)]]]]

\* x * y, elementwise
Times(x, y) ==
    [x EXCEPT !.data = [n \in DOMAIN x.data |-> [i \in DOMAIN x.data[n] |->
                          [j \in DOMAIN x.data[n][i] |->
                              x.data[n][i][j] * y.data[n][i][j]]]]]

\* lines 66-68: uxy - ux * uy.  ux and uy are in units of 1 / A with
\* A = WeightUnit^2 * Scale, uxy in units of 1 / (WeightUnit^2 * Scale^2); the
\* result is in units of 1 / A^2
CovarianceOfFirst(uxy, ux, uy) == uxy * WeightUnit * WeightUnit - ux * ux
Covariance(uxy, ux, uy) == uxy * WeightUnit * WeightUnit - ux * uy

\* c1 = 0.01 ** 2 and c2 = 0.03 ** 2 (lines 70-71), in units of 1 / A^2
C1 == (WeightUnit * WeightUnit * WeightUnit * WeightUnit * Scale * Scale)
          \div 10000
C2 == 9 * C1

\* lines 72-74 at one position: the two factors of the numerator and of the
\* denominator, in units of 1 / A^2.  The value returned is
\* numerator / (denominator + 1e-12), computed in float32.
SsimIndex(ux, uy, uxx, uyy, uxy) ==
    LET vx == Covariance(uxx, ux, ux)
        vy == Covariance(uyy, uy, uy)
        vxy == Covariance(uxy, ux, uy)
    IN  [numerator |-> <<2 * ux * uy + C1, 2 * vxy + C2>>,
         denominator |-> <<ux * ux + uy * uy + C1, vx + vy + C2>>]

\* _ssim: five convolutions with the cached kernel, then pointwise arithmetic
SsimMap(self, x, y) ==
    LET pad == self.kernel_size \div 2
        ux == Conv2d(x, self.gaussian_kernel, pad)
        uy == Conv2d(y, self.gaussian_kernel, pad)
        uxx == Conv2d(Times(x, x), self.gaussian_kernel, pad)
        uyy == Conv2d(Times(y, y), self.gaussian_kernel, pad)
        uxy == Conv2d(Times(x, y), self.gaussian_kernel, pad)
    IN  IF ux.kind = "error" THEN ux
        ELSE IF uy.kind = "error" THEN uy
        ELSE IF ux.shape # uy.shape THEN Error("RuntimeError")
        ELSE [ux EXCEPT !.data =
                 [n \in DOMAIN ux.data |-> [i \in DOMAIN ux.data[n] |->
                     [j \in DOMAIN ux.data[n][i] |->
                         SsimIndex(ux.data[n][i][j], uy.data[n][i][j],
                                   uxx.data[n][i][j], uyy.data[n][i][j],
                                   uxy.data[n][i][j])]]]]

\* forward: the instance after the call and the value returned.  With as_loss
\* the value is the scalar 1 - mean(data), otherwise the map data itself.
SsimForwardBody(self, x, y, as_loss) ==
    LET moved == [self EXCEPT !.gaussian_kernel.device =
                      MigratedDevice(self.gaussian_kernel.device, x.device)]
        map == SsimMap(moved, x, y)
    IN  [self |-> moved,
         out |-> IF map.kind = "error" THEN map
                 ELSE [kind |-> "tensor", device |-> map.device,
                       shape |-> IF as_loss THEN <<>> ELSE map.shape,
                       as_loss |-> as_loss, data |-> map.data]]

BatchSizes == {1, 2}
ChannelCounts == {1, 3}
Shapes == {<<n, c, h, w>> : n \in BatchSizes, c \in ChannelCounts,
                            h \in 1..MaxSide, w \in 1..MaxSide}

\* the image planes of the calls that follow the pixel values: the black
\* plane, the white plane and the plane with one dim pixel
Planes(h, w) ==
    {[i \in 1..h |-> [j \in 1..w |-> level]] : level \in {0, Scale}}
        \cup {[i \in 1..h |-> [j \in 1..w |-> IF i = 1 /\ j = 1 THEN 1 ELSE 0]]}
Images(n, h, w) == {d \in SeqsUpTo(Planes(h, w), n) : Len(d) = n}

CfgIdle == CfgInit

\* the keyword arguments of the constructor calls
SsimKwargs ==
    LET Kernel == {<<>>} \cup {[kw \in {"kernel_size"} |-> k] : k \in 1..MaxKernel}
        Reduction == {<<>>} \cup {[kw \in {"reduction"} |-> r] :
                                     r \in {"none", "mean", "sum"}}
    IN  {a @@ b : a \in Kernel, b \in Reduction}

\* SSIMLoss(**kwargs)
SsimConstruct ==
    /\ ssim = None
    /\ \E kwargs \in SsimKwargs :
          /\ ssimKw' = [kind |-> "kwargs", kwargs |-> kwargs]
          /\ ssim' = SsimNew(kwargs)
    /\ UNCHANGED <<ssimIn, ssimOut>>
    /\ UNCHANGED <<cfgVars, nrmseVars, rmsVars, procVars>>

\* ssim(x, y, as_loss), any number of times, on tensors of any device whose
\* contents are left open
SsimForward ==
    /\ ssim.kind = "SSIMLoss"
    /\ \E shape \in Shapes, xDevice \in Devices, yDevice \in Devices,
          as_loss \in BOOLEAN :
          LET x == [device |-> xDevice, shape |-> shape, data |-> <<>>]
              y == [device |-> yDevice, shape |-> shape, data |-> <<>>]
              r == SsimForwardBody(ssim, x, y, as_loss)
          IN  /\ ssimIn' = [self |-> ssim, x |-> x, y |-> y, as_loss |-> as_loss]
              /\ ssim' = r.self
              /\ ssimOut' = r.out
    /\ UNCHANGED ssimKw
    /\ UNCHANGED <<cfgVars, nrmseVars, rmsVars, procVars>>

\* ssim(x, y, as_loss) on two 3-channel CPU batches of one shape with known
\* pixel values.  Such a call leaves the instance as it was, so one call per
\* instance is followed.
SsimForwardImages ==
    /\ ssim.kind = "SSIMLoss"
    /\ ssimOut = None
    /\ \E n \in BatchSizes, h \in 1..MaxSide, w \in 1..MaxSide,
          as_loss \in BOOLEAN :
          \E xData \in Images(n, h, w), yData \in Images(n, h, w) :
             LET x == [device |-> "cpu", shape |-> <<n, 3, h, w>>, data |-> xData]
                 y == [device |-> "cpu", shape |-> <<n, 3, h, w>>, data |-> yData]
                 r == SsimForwardBody(ssim, x, y, as_loss)
             IN  /\ ssimIn' = [self |-> ssim, x |-> x, y |-> y,
                               as_loss |-> as_loss]
                 /\ ssim' = r.self
                 /\ ssimOut' = r.out
    /\ UNCHANGED ssimKw
    /\ UNCHANGED <<cfgVars, nrmseVars, rmsVars, procVars>>

SsimInitState == CfgIdle /\ SsimIdle /\ NrmseIdle /\ RmsIdle /\ ProcIdle
SsimNext ==
    \/ SsimConstruct
    \/ SsimForward
SpecSSIM == SsimInitState /\ [][SsimNext]_vars

SsimImagesNext ==
    \/ SsimConstruct
    \/ SsimForwardImages
SpecSSIMImages == SsimInitState /\ [][SsimImagesNext]_vars

(***************************************************************************)
(* evaluation/loss/nrmse.py: NormalizedRootMSE.  A tensor is the sequence  *)
(* of its elements; a real number is kept exact as the record              *)
(* [root, p, q], standing for p / q, or for sqrt(p / q) when root is set.  *)
(***************************************************************************)
SumSq(q) == Sum([i \in DOMAIN q |-> q[i] * q[i]])
MaxOf(q) == CHOOSE m \in {q[i] : i \in DOMAIN q} : \A i \in DOMAIN q : q[i] <= m
MinOf(q) == CHOOSE m \in {q[i] : i \in DOMAIN q} : \A i \in DOMAIN q : m <= q[i]

\* str.lower() and str.replace('-', '_') on the normalization names
NormLower(n) ==
    CASE n = "Euclidean" -> "euclidean"
      [] n = "MIN-MAX" -> "min-max"
      [] n = "L2" -> "l2"
      [] OTHER -> n

NormReplaceDash(n) ==
    CASE n = "min-max" -> "min_max"
      [] n = "MIN-MAX" -> "MIN_MAX"
      [] OTHER -> n

\* the static methods getattr can find
DenomAttributes == {"_euclidean", "_min_max", "_mean"}
Underscore(n) ==
    CASE n = "euclidean" -> "_euclidean"
      [] n = "min_max" -> "_min_max"
      [] n = "mean" -> "_mean"
      [] n = "Euclidean" -> "_Euclidean"
      [] n = "MIN_MAX" -> "_MIN_MAX"
      [] OTHER -> "_other"

NrmseInit(normalization, invert) ==
    IF NormLower(normalization) \notin {"euclidean", "min-max", "mean"}
    THEN Error("ValueError")
    ELSE IF Underscore(NormReplaceDash(normalization)) \notin DenomAttributes
    THEN Error("AttributeError")
    ELSE [kind |-> "NormalizedRootMSE",
          normalization |-> NormLower(normalization), invert |-> invert,
          denom_function |-> Underscore(NormReplaceDash(normalization))]

\* the defaults of __init__
NrmseDefaults == [normalization |-> "euclidean", invert |-> TRUE]

\* _euclidean, _min_max, _mean
DenomFunction(name, x) ==
    CASE name = "_euclidean" -> [root |-> TRUE, p |-> SumSq(x), q |-> Len(x)]
      [] name = "_min_max" -> [root |-> FALSE, p |-> MaxOf(x) - MinOf(x), q |-> 1]
      [] name = "_mean" -> [root |-> FALSE, p |-> Sum(x), q |-> Len(x)]

\* `if denom == 0`
DenomIsZeroUnchecked(denom) == FALSE
DenomIsZero(denom) == denom.p = 0

\* forward: sqrt(mse) / denom, or 1 - sqrt(mse) / denom
NrmseForwardBody(self, x, y) ==
    LET diff == [i \in DOMAIN x |-> x[i] - y[i]]
        mse_value == [root |-> FALSE, p |-> SumSq(diff), q |-> Len(x)]
        denom == DenomFunction(self.denom_function, x)
    IN  IF DenomIsZero(denom) THEN Error("ValueError")
        ELSE [kind |-> "value", sqrtOf |-> mse_value, over |-> denom,
              oneMinus |-> self.invert]

NormInputs == {"euclidean", "min-max", "mean", "Euclidean", "MIN-MAX", "L2"}
Pixels == (0 - MaxPixel)..MaxPixel
Tensors == {t \in SeqsUpTo(Pixels, MaxLen) : Len(t) >= 1}

\* NormalizedRootMSE(normalization, invert)
NrmseConstruct ==
    /\ nrmse = None
    /\ \E n \in NormInputs, invert \in BOOLEAN : nrmse' = NrmseInit(n, invert)
    /\ UNCHANGED <<nrmseIn, nrmseOut>>
    /\ UNCHANGED <<cfgVars, ssimVars, rmsVars, procVars>>

\* nrmse(x, y).  The module keeps no state between calls, so the model
\* follows one call per instance.
NrmseForward ==
    /\ nrmse.kind = "NormalizedRootMSE"
    /\ nrmseOut = None
    /\ \E x \in Tensors, y \in Tensors :
          /\ Len(x) = Len(y)
          /\ nrmseIn' = [x |-> x, y |-> y]
          /\ nrmseOut' = NrmseForwardBody(nrmse, x, y)
    /\ UNCHANGED nrmse
    /\ UNCHANGED <<cfgVars, ssimVars, rmsVars, procVars>>

NrmseInitState == CfgIdle /\ SsimIdle /\ NrmseIdle /\ RmsIdle /\ ProcIdle
NrmseNext ==
    \/ NrmseConstruct
    \/ NrmseForward
SpecNRMSE == NrmseInitState /\ [][NrmseNext]_vars

(***************************************************************************)
(* evaluation/loss/__init__.py: generate_random_neighbors, RMS_map, RMS.   *)
(* An image is a plane of pixel levels (a sequence of rows), its three     *)
(* channels being equal; level p stands for p / Scale, NaN for a NaN.      *)
(***************************************************************************)
NaN == 0 - 1

RECURSIVE GCD(_, _)
GCD(a, b) == IF b = 0 THEN a ELSE GCD(b, a % b)

\* Python's a // b
FloorDiv(a, b) == IF b > 0 THEN a \div b ELSE (0 - a) \div (0 - b)

HasNaN(img) == \E i \in DOMAIN img : \E j \in DOMAIN img[i] : img[i][j] = NaN

\* torch.mean(img1 + img2).item(): NaN, or the fraction p / q in lowest terms
MeanOfSum(img1, img2) ==
    IF HasNaN(img1) \/ HasNaN(img2) THEN [nan |-> TRUE, p |-> 0, q |-> 1]
    ELSE LET p == Sum([i \in DOMAIN img1 |-> Sum(img1[i]) + Sum(img2[i])])
             q == Len(img1) * Len(img1[1]) * Scale
             g == GCD(p, q)
         IN  [nan |-> FALSE, p |-> p \div g, q |-> q \div g]

\* hash(float): a function of the number, but of the object's address for a
\* NaN (CPython 3.10 and later); address is the address of the float object
\* made by .item()
HashBase == 1000
Hash(mean, address) ==
    IF mean.nan THEN address ELSE mean.p * HashBase + mean.q

\* torch.Generator().manual_seed(seed): the state the draws start from
GeneratorState(seed, global) == seed

\* the idx-th standard normal draw of a generator started from `state`: a
\* fixed stream per state, over the draws 0, 4 and -4
ZScores == <<0, 4, 0 - 4>>
NormalDraw(state, idx) == ZScores[((state + idx) % Len(ZScores)) + 1]

\* generate_random_neighbors.  sigma_rate is given in quarters.  env holds
\* what the call finds around it: the address of the new float object and the
\* state of the global generator.
GenerateRandomNeighbors(img1, img2, n_pixel_neighbors, step, sigma_rate, env) ==
    IF step = 0 THEN Error("ZeroDivisionError")
    ELSE
    LET height == Len(img1)
        width == Len(img1[1])
        dst_height == FloorDiv(height, step)
        dst_width == FloorDiv(width, step)
        sigma == <<height * sigma_rate, width * sigma_rate>>
        seed == Hash(MeanOfSum(img1, img2), env.address)
        state == GeneratorState(seed, env.rng)
        Index(i, j, c) == <<(i - 1) * step, (j - 1) * step>>[c]
        Draw(i, j, c, k) ==
            NormalDraw(state, (((i - 1) * dst_width + (j - 1)) * 2 + (c - 1))
                                  * n_pixel_neighbors + k)
    IN  \* torch.arange(0, dst) with dst < 0, torch.empty with a negative
        \* size, torch.normal with a negative standard deviation
        IF dst_height < 0 \/ dst_width < 0 THEN Error("RuntimeError")
        ELSE IF n_pixel_neighbors < 0 THEN Error("RuntimeError")
        ELSE IF sigma_rate < 0 /\ n_pixel_neighbors > 0 THEN Error("RuntimeError")
        ELSE [kind |-> "tensor",
              shape |-> <<dst_height, dst_width, 2, n_pixel_neighbors>>,
              data |-> [i \in 1..dst_height |-> [j \in 1..dst_width |->
                         [c \in 1..2 |-> [k \in 1..n_pixel_neighbors |->
                             Max(0, Index(i, j, c)
                                    + (sigma[c] * Draw(i, j, c, k)) \div 4)]]]]]

\* srgb2lab, srgb2prolab on a grey pixel: the lightness, 0 for black and 100
\* for white (a = b = 0)
Srgb2Lab(level) == IF level = NaN THEN NaN ELSE (100 * level) \div Scale
Srgb2Prolab(level) == IF level = NaN THEN NaN ELSE (100 * level) \div Scale

\* pixel_contrasts: the distance of the pixel's colour to one neighbour's;
\* row and col count from 0
PixelContrast(image, pixel, neighbor) ==
    LET a == image[pixel[1] + 1][pixel[2] + 1]
        b == image[neighbor[1] + 1][neighbor[2] + 1]
    IN  IF a = NaN \/ b = NaN THEN NaN
        ELSE IF a >= b THEN a - b ELSE b - a

\* line 133: the divisor of the contrast differences
ContrastNorm == 160

\* the columns of pixel_neighbors the mask of lines 119-126 keeps: those with
\* 0 <= row < height and 0 <= column < width
UnfilteredNeighbors(neighbors, height, width) == 1..Len(neighbors[1])
FilteredNeighbors(neighbors, height, width) ==
    {k \in 1..Len(neighbors[1]) :
        /\ neighbors[1][k] >= 0 /\ neighbors[1][k] < height
        /\ neighbors[2][k] >= 0 /\ neighbors[2][k] < width}

\* the indices one loop pass hands to pixel_contrasts: the cell's centre
\* pixel and the filtered neighbours, as <<row, column>> counted from 0
CellReads(pixel, neighbors, height, width) ==
    {pixel} \cup {<<neighbors[1][k], neighbors[2][k]>> :
                     k \in FilteredNeighbors(neighbors, height, width)}

\* image[pixel], image[neighbors]: an index at or beyond the size raises
\* IndexError (the indices are clamped at 0, so none is negative)
ReadFails(reads, height, width) ==
    \E r \in reads : r[1] >= height \/ r[2] >= width

\* torch.sqrt(torch.mean(diffs ** 2)) of the loop body, lines 118-134: NaN,
\* or sqrt(sumsq / count) / ContrastNorm
RmsCell(lab1, lab2, pixel, neighbors) ==
    LET n == Len(neighbors[1])
        height == Len(lab1)
        width == Len(lab1[1])
        kept == FilteredNeighbors(neighbors, height, width)
        At(k) == <<neighbors[1][k], neighbors[2][k]>>
        nan == \E k \in kept : \/ PixelContrast(lab1, pixel, At(k)) = NaN
                               \/ PixelContrast(lab2, pixel, At(k)) = NaN
        Diff(k) == IF k \in kept
                   THEN PixelContrast(lab1, pixel, At(k))
                            - PixelContrast(lab2, pixel, At(k))
                   ELSE 0
    IN  IF kept = {} \/ nan
        THEN [nan |-> TRUE, sumsq |-> 0, count |-> 0, over |-> ContrastNorm]
        ELSE [nan |-> FALSE, sumsq |-> SumSq([k \in 1..n |-> Diff(k)]),
              count |-> Cardinality(kept), over |-> ContrastNorm]

\* RMS_map
RmsMap(img1, img2, color_space, n_pixel_neighbors, step, sigma_rate, env) ==
    LET neighbors == GenerateRandomNeighbors(img1, img2, n_pixel_neighbors,
                                             step, sigma_rate, env)
        Lab(img) == [i \in DOMAIN img |-> [j \in DOMAIN img[i] |->
                        IF color_space = "lab" THEN Srgb2Lab(img[i][j])
                        ELSE Srgb2Prolab(img[i][j])]]
    IN  IF neighbors.kind = "error" THEN neighbors
        ELSE IF /\ color_space \notin {"lab", "prolab"}
                /\ neighbors.shape[1] > 0 /\ neighbors.shape[2] > 0
        THEN Error("UnboundLocalError")
        ELSE IF \E i \in 1..neighbors.shape[1], j \in 1..neighbors.shape[2] :
                   ReadFails(CellReads(<<(i - 1) * step, (j - 1) * step>>,
                                       neighbors.data[i][j],
                                       Len(img1), Len(img1[1])),
                             Len(img1), Len(img1[1]))
        THEN Error("IndexError")
        ELSE [kind |-> "tensor",
              shape |-> <<neighbors.shape[1], neighbors.shape[2]>>,
              data |-> [i \in 1..neighbors.shape[1] |->
                         [j \in 1..neighbors.shape[2] |->
                            RmsCell(Lab(img1), Lab(img2),
                                    <<(i - 1) * step, (j - 1) * step>>,
                                    neighbors.data[i][j])]]]

\* the indices RMS_map hands to pixel_contrasts over its whole loop, each with
\* the size of the image it indexes; none when the loop is not reached
RmsMapReads(img1, img2, color_space, n_pixel_neighbors, step, sigma_rate, env) ==
    LET neighbors == GenerateRandomNeighbors(img1, img2, n_pixel_neighbors,
                                             step, sigma_rate, env)
        height == Len(img1)
        width == Len(img1[1])
    IN  IF neighbors.kind = "error" \/ color_space \notin {"lab", "prolab"}
        THEN {}
        ELSE UNION {{[height |-> height, width |-> width,
                      row |-> r[1], column |-> r[2]] :
                        r \in CellReads(<<(i - 1) * step, (j - 1) * step>>,
                                        neighbors.data[i][j], height, width)} :
                    i \in 1..neighbors.shape[1], j \in 1..neighbors.shape[2]}

\* torch.mean(RMS_map(...)): NaN for an empty map or a map with a NaN cell,
\* otherwise the mean of the cells
MeanOfMap(map) ==
    LET cells == {map.data[i][j] : i \in 1..map.shape[1], j \in 1..map.shape[2]}
    IN  IF cells = {} \/ \E c \in cells : c.nan THEN [kind |-> "nan"]
        ELSE [kind |-> "mean", of |-> map.data,
              zero |-> \A c \in cells : c.sumsq = 0]

\* RMS: img1 and img2 are batches [shape, data], data holding one plane per
\* batch element
RmsBody(img1, img2, color_space, n_pixel_neighbors, step, sigma_rate, env) ==
    IF Len(img1.shape) \notin {3, 4} \/ Len(img2.shape) \notin {3, 4}
    THEN Error("AssertionError")
    ELSE IF img1.shape[Len(img1.shape) - 2] # 3 \/ img2.shape[Len(img2.shape) - 2] # 3
    THEN Error("AssertionError")
    ELSE LET maps == [idx \in DOMAIN img1.data |->
                        RmsMap(img1.data[idx], img2.data[idx], color_space,
                               n_pixel_neighbors, step, sigma_rate, env)]
         IN  IF \E idx \in DOMAIN maps : maps[idx].kind = "error"
             THEN maps[CHOOSE idx \in DOMAIN maps : maps[idx].kind = "error"
                          /\ \A e \in 1..(idx - 1) : maps[e].kind # "error"]
             ELSE [kind |-> "tensor", shape |-> <<Len(img1.data)>>,
                   data |-> [idx \in DOMAIN maps |-> MeanOfMap(maps[idx])]]

\* the indices read by the RMS_map calls of RMS
RmsReads(img1, img2, color_space, n_pixel_neighbors, step, sigma_rate, env) ==
    IF Len(img1.shape) \notin {3, 4} \/ Len(img2.shape) \notin {3, 4}
    THEN {}
    ELSE IF img1.shape[Len(img1.shape) - 2] # 3 \/ img2.shape[Len(img2.shape) - 2] # 3
    THEN {}
    ELSE UNION {RmsMapReads(img1.data[idx], img2.data[idx], color_space,
                            n_pixel_neighbors, step, sigma_rate, env) :
                   idx \in DOMAIN img1.data}

\* the planes of the calls: black, white, white with a NaN, and one white
\* pixel on black
RmsPlanes(h, w) ==
    {[i \in 1..h |-> [j \in 1..w |-> level]] : level \in {0, Scale}}
        \cup {[i \in 1..h |-> [j \in 1..w |->
                  IF i = 1 /\ j = 1 THEN NaN ELSE Scale]]}
        \cup {[i \in 1..h |-> [j \in 1..w |->
                  IF i = h /\ j = w THEN Scale ELSE 0]]}

\* the parameter triples of the calls: the sound ones, and one unsound value
\* of each parameter
RmsParameters ==
    {<<n, step, rate>> : n \in 0..MaxNeighbors, step \in 1..(MaxSide + 1),
                         rate \in {0, 1}}
        \cup {<<0 - 1, 1, 1>>, <<1, 0, 1>>, <<1, 0 - 1, 1>>, <<1, 1, 0 - 1>>}

\* the addresses a new float object may get
Addresses == {0 - 2, 0 - 3}
AddressesFor(img1, img2) ==
    IF MeanOfSum(img1, img2).nan THEN Addresses ELSE {0 - 2}

\* RMS(img1, img2, color_space, n_pixel_neighbors, step, sigma_rate) on two
\* batches that are equal or hold the same images in another order.  RMS
\* keeps no state, so one call is followed.
RmsCall ==
    /\ rmsOut = None
    /\ \E n \in BatchSizes, h \in 1..MaxSide, w \in 1..MaxSide,
          color_space \in {"lab", "prolab", "xyz"}, prm \in RmsParameters :
          \E d1 \in {d \in SeqsUpTo(RmsPlanes(h, w), n) : Len(d) = n} :
          \E d2 \in IF n = 1 THEN {<<other>> : other \in RmsPlanes(h, w)}
                     ELSE {d1, <<d1[2], d1[1]>>} :
             LET img1 == [shape |-> <<n, 3, h, w>>, data |-> d1]
                 img2 == [shape |-> <<n, 3, h, w>>, data |-> d2]
             IN  \E address \in UNION {AddressesFor(d1[e], d2[e]) : e \in 1..n} :
                    /\ rmsIn' = [img1 |-> img1, img2 |-> img2,
                                 color_space |-> color_space,
                                 n_pixel_neighbors |-> prm[1], step |-> prm[2],
                                 sigma_rate |-> prm[3]]
                    /\ rmsOut' = RmsBody(img1, img2, color_space, prm[1], prm[2],
                                         prm[3], [address |-> address, rng |-> rng])
                    /\ rmsReads' = RmsReads(img1, img2, color_space, prm[1],
                                            prm[2], prm[3],
                                            [address |-> address, rng |-> rng])
    /\ UNCHANGED <<rng, genIn, genOut, genOut2>>
    /\ UNCHANGED <<cfgVars, ssimVars, nrmseVars, procVars>>

RmsInitState == CfgIdle /\ SsimIdle /\ NrmseIdle /\ RmsIdle /\ ProcIdle

\* generate_random_neighbors(img1, img2, n_pixel_neighbors, step, sigma_rate)
GenerateNeighbors ==
    /\ genIn = None
    /\ \E h \in 1..MaxSide, w \in 1..MaxSide, prm \in RmsParameters :
          \E img1 \in RmsPlanes(h, w), img2 \in RmsPlanes(h, w) :
             \E address \in AddressesFor(img1, img2) :
                /\ genIn' = [img1 |-> img1, img2 |-> img2,
                             n_pixel_neighbors |-> prm[1], step |-> prm[2],
                             sigma_rate |-> prm[3]]
                /\ genOut' = GenerateRandomNeighbors(img1, img2, prm[1], prm[2],
                                 prm[3], [address |-> address, rng |-> rng])
    /\ UNCHANGED <<rng, genOut2, rmsIn, rmsOut, rmsReads>>
    /\ UNCHANGED <<cfgVars, ssimVars, nrmseVars, procVars>>

\* any other code drawing from torch's global generator (torch.rand, ...)
TorchDraw ==
    /\ rng < MaxGlobalDraws
    /\ rng' = rng + 1
    /\ UNCHANGED <<genIn, genOut, genOut2, rmsIn, rmsOut, rmsReads>>
    /\ UNCHANGED <<cfgVars, ssimVars, nrmseVars, procVars>>

\* a later call of generate_random_neighbors with the arguments of the first
GenerateNeighborsAgain ==
    /\ genIn # None
    /\ genOut2 = None
    /\ \E address \in AddressesFor(genIn.img1, genIn.img2) :
          genOut2' = GenerateRandomNeighbors(genIn.img1, genIn.img2,
                         genIn.n_pixel_neighbors, genIn.step, genIn.sigma_rate,
                         [address |-> address, rng |-> rng])
    /\ UNCHANGED <<rng, genIn, genOut, rmsIn, rmsOut, rmsReads>>
    /\ UNCHANGED <<cfgVars, ssimVars, nrmseVars, procVars>>

NeighborsNext ==
    \/ GenerateNeighbors
    \/ TorchDraw
    \/ GenerateNeighborsAgain
SpecNeighbors == RmsInitState /\ [][NeighborsNext]_vars

RmsNext == RmsCall
SpecRMS == RmsInitState /\ [][RmsNext]_vars

(***************************************************************************)
(* processing.py: scale_value.  A tensor is the sequence of its elements;  *)
(* mul and add are kept exact as fractions over the common denominator     *)
(* white - black, and so is the output.                                    *)
(***************************************************************************)
Abs(v) == IF v < 0 THEN 0 - v ELSE v

\* black == white: mul = 0.0 and add is black when it lies within the bounds,
\* otherwise the nearer bound
ConstantAddBlack(black, min_val, max_val) == black
ConstantAdd(black, min_val, max_val) ==
    IF min_val <= black /\ black <= max_val THEN black
    ELSE IF Abs(black - min_val) <= Abs(black - max_val) THEN min_val
    ELSE max_val

\* mul = (max_val - min_val) / (white - black)
ScaleMul(black, white, min_val, max_val) ==
    [p |-> max_val - min_val, q |-> white - black]

\* add = -black * mul + min_val, over the denominator of mul
ScaleAddNoOffset(black, mul, min_val) == (0 - black) * mul.p
ScaleAdd(black, mul, min_val) == (0 - black) * mul.p + min_val * mul.q

\* out = torch.mul(arr, mul): a new tensor out beside arr, its elements over
\* the denominator of mul
TorchMul(arr, mul) ==
    [arr |-> arr, out |-> [i \in DOMAIN arr |-> arr[i] * mul.p]]

\* out += add: out changed in place
AddInPlace(mem, add) ==
    [mem EXCEPT !.out = [i \in DOMAIN mem.out |-> mem.out[i] + add]]

\* scale_value(arr, min_val, max_val): out = torch.mul(arr, mul); out += add.
\* arr.min() of an empty tensor raises.  The result holds the returned
\* tensor (num over den) and arr as the call leaves it.
ScaleValueBody(arr, min_val, max_val) ==
    IF Len(arr) = 0 THEN Error("RuntimeError")
    ELSE LET black == MinOf(arr)
             white == MaxOf(arr)
             mul == IF black = white THEN [p |-> 0, q |-> 1]
                    ELSE ScaleMul(black, white, min_val, max_val)
             add == IF black = white THEN ConstantAdd(black, min_val, max_val)
                    ELSE ScaleAdd(black, mul, min_val)
             mem == AddInPlace(TorchMul(arr, mul), add)
         IN  [kind |-> "tensor", num |-> mem.out, den |-> mul.q,
              arr |-> mem.arr]

\* the arrays and the bounds handed to scale_value
ScaleArrays == SeqsUpTo(Pixels, MaxLen)
ScaleBounds == (0 - 1)..2

\* scale_value(arr, min_val, max_val).  The function keeps no state and
\* leaves arr alone, so the model follows one call.
ScaleValue ==
    /\ scaleIn = None
    /\ \E arr \in ScaleArrays, min_val \in ScaleBounds, max_val \in ScaleBounds :
          /\ scaleIn' = [kind |-> "call", arr |-> arr, min_val |-> min_val,
                         max_val |-> max_val]
          /\ scaleOut' = ScaleValueBody(arr, min_val, max_val)
    /\ UNCHANGED <<cfgVars, ssimVars, nrmseVars, rmsVars>>

ProcInitState == CfgIdle /\ SsimIdle /\ NrmseIdle /\ RmsIdle /\ ProcIdle
ProcNext == ScaleValue
SpecScale == ProcInitState /\ [][ProcNext]_vars

(***************************************************************************)
(* loss_function.py: the metric a bound callable wraps, invoked as         *)
(* loss(distorted[0], original_image).  An image of the configuration      *)
(* layer is one pixel level.                                               *)
(***************************************************************************)
\* int(...) and the quarters of float(...) of the parameter literals
ParseInt(v) ==
    CASE v = "0" -> 0
      [] v = "1" -> 1
      [] v = "10" -> 10
      [] v = "1000" -> 1000
Quarters(v) ==
    CASE v = "0.25" -> 1
      [] v = "0.5" -> 2

\* the image batch of one pixel level: one 3-channel image of side MaxSide
AsBatch(level) ==
    [shape |-> <<1, 3, MaxSide, MaxSide>>,
     data |-> <<[i \in 1..MaxSide |-> [j \in 1..MaxSide |-> level]]>>]

\* olimp.evaluation.loss.rms.RMS(color_space, n_pixel_neighbors, step,
\* sigma_rate)(x, y): the metric object hands its parameters to RMS
RmsMetric(kwargs, x, y) ==
    RmsBody(AsBatch(x), AsBatch(y), kwargs["color_space"],
            ParseInt(kwargs["n_pixel_neighbors"]), ParseInt(kwargs["step"]),
            Quarters(kwargs["sigma_rate"]),
            [address |-> CHOOSE a \in Addresses : TRUE, rng |-> 0])

\* NormalizedRootMSE(invert=...)(x, y)
NrmseMetric(kwargs, x, y) ==
    NrmseForwardBody(NrmseInit(NrmseDefaults.normalization,
                               kwargs["invert"] = "True"),
                     <<x>>, <<y>>)

\* loss(*args) for the metrics whose code is at hand; the others return a
\* value the model does not follow
MetricCall(metric, args) ==
    CASE metric.cls = "NormalizedRootMSE" ->
             NrmseMetric(metric.kwargs, args[1], args[2])
      [] metric.cls = "RMS" -> RmsMetric(metric.kwargs, args[1], args[2])
      [] OTHER -> [kind |-> "opaque"]

\* bound(model_output, datums[, distortions]).  The callables keep no state
\* between calls, so the model follows one call per load.
Call ==
    /\ bound.kind = "callable"
    /\ callOut = None
    /\ \E args \in ArgLists(bound.impl) :
          /\ callIn' = args
          /\ callOut' = CallBody(bound, args)
    /\ metricOut' = IF callOut'.kind = "value"
                    THEN MetricCall(bound.metric, callOut'.metricArgs[1])
                    ELSE None
    /\ tensorOps' = Len(callOut'.applied) + Len(callOut'.metricArgs)
    /\ UNCHANGED <<rec, via, cfg, instance, loadIn, bound>>
    /\ UNCHANGED <<ssimVars, nrmseVars, rmsVars, procVars>>

Init == CfgInit /\ SsimIdle /\ NrmseIdle /\ RmsIdle /\ ProcIdle
Next ==
    \/ ValidateThroughUnion
    \/ Construct
    \/ Load
    \/ GetInstance
    \/ LoadDistortion
    \/ Call
Spec == Init /\ [][Next]_vars

(***************************************************************************)
(* Properties of the configuration layer and of the bound callables.       *)
(***************************************************************************)
\* the names of the loss configuration table
TableNames ==
    {"Vae", "ColorBlindnessLoss", "MSE", "PSNR", "NRMSE", "STRESS", "CORR",
     "SSIM", "MS_SSIM", "FSIM", "RMS", "CD"}

\* rec is a well-formed record of class cls: its tag, every required field,
\* no undeclared field, every value admitted by its annotation
WellFormedFor(cls) ==
    /\ "name" \in DOMAIN rec
    /\ rec["name"] = Tag(cls)
    /\ Required(cls) \subseteq DOMAIN rec
    /\ DOMAIN rec \subseteq Declared(cls)
    /\ \A k \in DOMAIN rec \ {"name"} : Admits(k, rec[k])

Loaded == cfg.kind = "config" /\ cfg.cls \in LossClasses /\ loadIn.kind = "load"
Called == bound.kind = "callable" /\ callOut # None
CalledSimple3 == Called /\ bound.impl = "simple" /\ Len(callIn) = 3

\* C1: every name of the loss configuration table is selectable through the
\* LossFunction union: a well-formed record carrying that tag validates to the
\* variant of that tag.
C1_TableNamesSelectable ==
    \A cls \in LossClasses :
        (via = "LossFunction" /\ Tag(cls) \in TableNames /\ WellFormedFor(cls))
            => (cfg.kind = "config" /\ cfg.cls = cls)

\* C2: every loss variant class exposes load(model): load on a validly
\* constructed record, with a compatible model, returns a callable.
C2_EveryVariantLoads ==
    (/\ Loaded
     /\ loadIn.method = "load"
     /\ (cfg.cls = "VaeLossFunction" => loadIn.model \in {"VAE", "CVAE"}))
        => bound.kind = "callable"

\* C3: the callable load() returns for a non-VAE variant accepts the three
\* positional arguments (model_output, datums, distortions).
C3_ThreeArgumentsAccepted ==
    (/\ Loaded
     /\ loadIn.method = "load"
     /\ cfg.cls # "VaeLossFunction"
     /\ Called
     /\ Len(callIn) = 3)
        => callOut.err # "TypeError"

\* C4 as stated: whenever len(distortions) = len(datums) - 1, a callable of
\* _create_simple_loss applies distortions[i] to datums[i+1] for every i, clips
\* each result to [0,1] and returns the metric of the clipped result(s) against
\* datums[0].
C4_PairsClipsAndReturns ==
    (CalledSimple3 /\ Len(callIn[3]) = Len(callIn[2]) - 1)
        => /\ callOut.kind = "value"
           /\ callOut.applied = [i \in 1..Len(callIn[3]) |-> <<i, i + 1>>]
           /\ callOut.metricArgs # <<>>
           /\ \A i \in DOMAIN callOut.metricArgs :
                 /\ callOut.metricArgs[i][1] \in 0..Scale
                 /\ callOut.metricArgs[i][2] = callIn[2][1]

\* C4 as amended: with exactly one distortion and two datums the callable
\* applies distortions[0] to datums[1], clips the result to [0,1] and returns
\* the metric of the clipped result against datums[0]; in no call does the
\* metric receive a simulated value outside [0,1].
C4_OnePairClipsAndReturns ==
    CalledSimple3 =>
        /\ (Len(callIn[3]) = 1 /\ Len(callIn[2]) = 2) =>
              LET raw == callIn[1][1] + callIn[2][2] + callIn[3][1]
                  clipped == IF raw < 0 THEN 0 ELSE IF raw > Scale THEN Scale ELSE raw
              IN  /\ callOut.kind = "value"
                  /\ callOut.applied = << <<1, 2>> >>
                  /\ callOut.metricArgs = << <<clipped, callIn[2][1]>> >>
        /\ \A i \in DOMAIN callOut.metricArgs :
              callOut.metricArgs[i][1] \in 0..Scale

\* a call with one pair whose raw simulated value lies above 1 and was clipped
C4_Witness ==
    /\ CalledSimple3
    /\ Len(callIn[3]) = 1 /\ Len(callIn[2]) = 2
    /\ callIn[1][1] + callIn[2][2] + callIn[3][1] > Scale
    /\ callOut.kind = "value"
    /\ callOut.metricArgs[1][1] = Scale

\* C5: whenever len(distortions) # len(datums) - 1 the call of a callable of
\* _create_simple_loss fails: the metric is never invoked and no loss value is
\* returned.
C5_LengthMismatchFails ==
    (CalledSimple3 /\ Len(callIn[3]) # Len(callIn[2]) - 1)
        => (callOut.kind = "error" /\ callOut.metricArgs = <<>>)

\* a call with two distortions for one later datum: truncating the longer
\* list would have left exactly one pair
C5_Witness ==
    /\ CalledSimple3
    /\ Len(callIn[3]) = 2 /\ Len(callIn[2]) = 2
    /\ callOut.kind = "error" /\ callOut.err = "ValueError"
    /\ Len(callOut.applied) = 1

\* C6: VaeLossFunction.load(model) returns a bound callable exactly when
\* type(model).__name__ is VAE or CVAE; otherwise it fails at load time with an
\* assertion error, no callable exists and no tensor has been touched.
C6_VaeLoadChecksModel ==
    (Loaded /\ cfg.cls = "VaeLossFunction" /\ loadIn.method = "load") =>
        /\ bound.kind = "callable" <=> loadIn.model \in {"VAE", "CVAE"}
        /\ loadIn.model \notin {"VAE", "CVAE"} =>
              /\ bound = Error("AssertionError")
              /\ callIn = None /\ callOut = None
              /\ tensorOps = 0

\* a Vae loss loaded against a model whose type name differs from VAE only
\* in case
C6_Witness ==
    /\ Loaded /\ cfg.cls = "VaeLossFunction" /\ loadIn.method = "load"
    /\ loadIn.model = "vae"
    /\ bound = Error("AssertionError")

\* C7: no configuration record (loss, model or distortion) is constructed
\* from a raw record carrying a field its class does not declare.
C7_ExtraFieldsRejected ==
    /\ cfg.kind = "config" =>
          /\ DOMAIN rec \subseteq Declared(cfg.cls)
          /\ DOMAIN cfg.fields = Declared(cfg.cls)
    /\ \A cls \in AllClasses :
          (via = cls /\ ~(DOMAIN rec \subseteq Declared(cls))) => cfg.kind = "error"

\* a record that fails only because of its extra key: without the key it
\* validates
C7_Witness ==
    /\ via \in AllClasses
    /\ "bogus" \in DOMAIN rec
    /\ cfg.kind = "error"
    /\ ValidateClass(via, [k \in DOMAIN rec \ {"bogus"} |-> rec[k]]).kind = "config"

\* C8: dispatch through a union is by exact match of `name`: an accepted
\* record has exactly the tag of the variant it validates to, a record whose
\* tag is none of the union's tags fails before anything is loaded or
\* computed, and no two variants of a union share a tag.
C8_ExactTagDispatch ==
    via \in Unions =>
        /\ cfg.kind = "config" =>
              /\ cfg.cls \in UnionMembers(via)
              /\ rec["name"] = Tag(cfg.cls)
              /\ cfg.fields["name"] = rec["name"]
        /\ ("name" \notin DOMAIN rec
            \/ rec["name"] \notin {Tag(c) : c \in UnionMembers(via)}) =>
              /\ cfg.kind = "error"
              /\ instance = None /\ bound = None /\ callOut = None
              /\ tensorOps = 0
        /\ \A c1, c2 \in UnionMembers(via) : Tag(c1) = Tag(c2) => c1 = c2

\* a record tagged "vae" (a model tag, and "Vae" in another case) is refused
\* by the loss union
C8_Witness ==
    /\ via = "LossFunction"
    /\ "name" \in DOMAIN rec /\ rec["name"] = "vae"
    /\ DOMAIN rec = {"name"}
    /\ cfg.kind = "error"

(***************************************************************************)
(* Properties of SSIMLoss and NormalizedRootMSE.                           *)
(***************************************************************************)
SsimCalled == ssim.kind = "SSIMLoss" /\ ssimIn # None

\* C9 as stated: on every forward call (of two 3-channel batches on one
\* device) the cached kernel is migrated to the input's device, so the kernel
\* used by the call's convolutions is on the device of that call's input.
C9_KernelFollowsInput ==
    (SsimCalled /\ ssimIn.x.shape[2] = 3 /\ ssimIn.y.device = ssimIn.x.device)
        => ssim.gaussian_kernel.device = ssimIn.x.device

\* C9 as amended: a forward call migrates the cached kernel to the input's
\* device only when the kernel is not yet on a CUDA device; a kernel on a CUDA
\* device stays there.  The kernel used by the convolutions is on the input's
\* device exactly when, before the call, it was off CUDA or already on that
\* device; otherwise the convolutions fail on the device mismatch.
C9_KernelMigratesOnlyOffCuda ==
    SsimCalled =>
        LET before == ssimIn.self.gaussian_kernel.device
            after == ssim.gaussian_kernel.device
        IN  /\ before = "cpu" => after = ssimIn.x.device
            /\ before # "cpu" => after = before
            /\ (after = ssimIn.x.device) <=> (before = "cpu" \/ before = ssimIn.x.device)
            /\ after # ssimIn.x.device => ssimOut = Error("RuntimeError")

\* a call that found the kernel on the CPU and moved it to a CUDA input
C9_Witness ==
    /\ SsimCalled
    /\ ssimIn.self.gaussian_kernel.device = "cpu"
    /\ ssimIn.x.device = "cuda:1"
    /\ ssim.gaussian_kernel.device = "cuda:1"
    /\ ssimOut.kind = "tensor"

NrmseCalled == nrmse.kind = "NormalizedRootMSE" /\ nrmseOut # None

\* the normalization denominator of x is zero, from the definitions of the
\* three normalizations
ZeroDenominator(normalization, x) ==
    CASE normalization = "euclidean" -> \A i \in DOMAIN x : x[i] = 0
      [] normalization = "min-max" -> \A i, j \in DOMAIN x : x[i] = x[j]
      [] normalization = "mean" -> Sum(x) = 0

NrmseValueIsZero(out) ==
    /\ out.kind = "value"
    /\ IF ~out.oneMinus THEN out.sqrtOf.p = 0
       ELSE IF out.over.root
       THEN out.sqrtOf.p * out.over.q = out.over.p * out.sqrtOf.q
       ELSE /\ out.over.p >= 0
            /\ out.sqrtOf.p * out.over.q * out.over.q
                   = out.over.p * out.over.p * out.sqrtOf.q

\* C11 as stated: NormalizedRootMSE constructed with default arguments and
\* applied to an all-zero prediction batch and an all-zero target batch of the
\* same shape returns the value 0.0.
C11_ZeroZeroReturnsZero ==
    (/\ NrmseCalled
     /\ nrmse = NrmseInit(NrmseDefaults.normalization, NrmseDefaults.invert)
     /\ \A i \in DOMAIN nrmseIn.x : nrmseIn.x[i] = 0
     /\ \A i \in DOMAIN nrmseIn.y : nrmseIn.y[i] = 0)
        => NrmseValueIsZero(nrmseOut)

\* denominator + 1e-12 in float32 (line 74).  The sum rounds back to
\* denominator exactly when 1e-12 is below half a unit in the last place of
\* denominator, that is when denominator >= 2^-15; the threshold is written in
\* units of 1e-8, the denominator's factors are taken in units of 1e-4.
\* "yes": the sum equals denominator, "no": it is larger, "open": the
\* factors are too close to the threshold for their floors to decide.
AbsorbThreshold == 3052
EpsilonAbsorbed(index) ==
    LET e1 == index.denominator[1] \div C1
        e2 == index.denominator[2] \div C1
    IN  IF e1 * e2 >= AbsorbThreshold THEN "yes"
        ELSE IF (e1 + 1) * (e2 + 1) < AbsorbThreshold THEN "no"
        ELSE "open"

\* the float32 quotient is certainly below 1: numerator and denominator are
\* the same float and the 1e-12 is not absorbed
IndexBelowOne(index) ==
    /\ index.numerator = index.denominator
    /\ EpsilonAbsorbed(index) = "no"

\* the index entries of a returned tensor
IndexEntries(out) ==
    {out.data[n][i][j] : n \in DOMAIN out.data, i \in 1..Len(out.data[1]),
                         j \in 1..Len(out.data[1][1])}

SsimCalledOnImages ==
    /\ SsimCalled
    /\ Tracked(ssimIn.x)
    /\ ssimOut.kind = "tensor"

\* C12 as stated: for two identical input batches (in particular two all-zero
\* batches) the SSIM index is exactly 1 at every position, so the loss
\* 1 - ssim is exactly 0.0.
C12_IdenticalInputsScorePerfect ==
    (SsimCalledOnImages /\ ssimIn.x.data = ssimIn.y.data)
        => \A index \in IndexEntries(ssimOut) : ~IndexBelowOne(index)

\* C13 as stated: SSIMLoss can be constructed with a reduction argument
\* ("none", "mean" or "sum").
C13_ReductionAccepted ==
    (ssimKw.kind = "kwargs" /\ "reduction" \in DOMAIN ssimKw.kwargs)
        => ssim.kind = "SSIMLoss"

\* C14: SSIM is symmetric: for all pairs of equal-shape 3-channel batches a
\* and b, SSIMLoss returns the same index map and the same loss for (a, b) as
\* for (b, a).
C14_Symmetric ==
    (SsimCalled /\ Tracked(ssimIn.x)) =>
        SsimForwardBody(ssimIn.self, ssimIn.y, ssimIn.x, ssimIn.as_loss).out
            = ssimOut

\* a call on two different batches whose index map is not the perfect one
C14_Witness ==
    /\ SsimCalledOnImages
    /\ ssimIn.x.data # ssimIn.y.data
    /\ ssimIn.x.shape[1] = 2
    /\ \E index \in IndexEntries(ssimOut) : index.numerator # index.denominator

(***************************************************************************)
(* Properties of RMS and generate_random_neighbors.                        *)
(***************************************************************************)
RmsCalled == rmsOut # None

\* the call's parameters are sound: a colour space RMS_map knows, a positive
\* step, at least one neighbour, a non-negative sigma_rate, no NaN pixel
RmsSoundCall ==
    /\ RmsCalled
    /\ rmsIn.color_space \in {"lab", "prolab"}
    /\ rmsIn.step >= 1
    /\ rmsIn.n_pixel_neighbors >= 1
    /\ rmsIn.sigma_rate >= 0
    /\ \A idx \in DOMAIN rmsIn.img1.data :
          ~HasNaN(rmsIn.img1.data[idx]) /\ ~HasNaN(rmsIn.img2.data[idx])

C18_NeighborsDeterministic ==
    genOut2 # None => genOut2 = genOut

(***************************************************************************)
(* Properties of the configuration parameters and of the metric a bound    *)
(* callable invokes.                                                       *)
(***************************************************************************)
\* the errors a parameter value causes inside a metric: height // step with
\* step = 0, a negative dimension handed to torch.empty, a colour space the
\* map does not know
ParameterErrors == {"ZeroDivisionError", "RuntimeError", "UnboundLocalError"}
FailsOnParameter(out) == out.kind = "error" /\ out.err \in ParameterErrors

\* C16 as stated: once a loss configuration record has been constructed,
\* neither load() nor any later call of the bound callable fails because of
\* the value of a configuration parameter.
C16_ParametersFailOnlyAtConstruction ==
    (cfg.kind = "config" /\ cfg.cls \in LossClasses) =>
        /\ bound # None => ~FailsOnParameter(bound)
        /\ metricOut # None => ~FailsOnParameter(metricOut)

\* lambda_ssim within [0, 1]
InUnitInterval(v) == v \in {"0", "0.25", "0.5", "1"}

\* C17 as stated: a ColorBlindnessLoss configuration record is constructed only
\* if type is protan or deutan, degree is one of 10, 20, ..., 100 and
\* lambda_ssim lies in [0, 1].
C17_ColorBlindnessValidated ==
    (cfg.kind = "config" /\ cfg.cls = "ColorBlindnessLossFunction") =>
        /\ cfg.fields["type"] \in {"protan", "deutan"}
        /\ cfg.fields["degree"] \in Degree
        /\ InUnitInterval(cfg.fields["lambda_ssim"])

\* the metric of NRMSELossFuction.load was invoked by the bound callable
NrmseThroughConfig ==
    /\ metricOut # None
    /\ bound.metric.cls = "NormalizedRootMSE"

\* C20 as stated: when NRMSE is used through NRMSELossFuction.load, the
\* normalization denominator is computed from the reference datums[0] and not
\* from the simulated image: a value is normalized by the reference's
\* denominator, and the call fails exactly when that denominator is zero.
C20_DenominatorFromReference ==
    NrmseThroughConfig =>
        LET reference == callIn[2][1]
            denom == DenomFunction("_euclidean", <<reference>>)
        IN  /\ metricOut.kind = "value" => metricOut.over = denom
            /\ metricOut.kind = "error" <=> DenomIsZero(denom)


(***************************************************************************)
(* Properties of scale_value.                                              *)
(***************************************************************************)
ScaleCalled == scaleIn # None
IsConstant(arr) == \A i, j \in DOMAIN arr : arr[i] = arr[j]

C21_ReadsInsideImage ==
    (RmsCalled /\ rmsIn.step >= 1) =>
        /\ \A r \in rmsReads : /\ 0 <= r.row /\ r.row < r.height
                               /\ 0 <= r.column /\ r.column < r.width
        /\ rmsOut # Error("IndexError")

\* a call whose loop ran with a drawn neighbour beyond the image, and which
\* read a pixel other than the centre (0, 0)
C21_Witness ==
    /\ RmsCalled
    /\ rmsOut.kind = "tensor"
    /\ rmsIn.step >= 1
    /\ rmsIn.n_pixel_neighbors >= 1
    /\ \E r \in rmsReads : r.row > 0 \/ r.column > 0
    /\ \E idx \in DOMAIN rmsIn.img1.data : \E address \in Addresses :
          LET img == rmsIn.img1.data[idx]
              nb == GenerateRandomNeighbors(img, rmsIn.img2.data[idx],
                        rmsIn.n_pixel_neighbors, rmsIn.step, rmsIn.sigma_rate,
                        [address |-> address, rng |-> rng])
          IN  /\ nb.kind = "tensor"
              /\ \E i \in 1..nb.shape[1], j \in 1..nb.shape[2] :
                    FilteredNeighbors(nb.data[i][j], Len(img), Len(img[1]))
                        # UnfilteredNeighbors(nb.data[i][j], Len(img), Len(img[1]))


(***************************************************************************)
(* Properties of get_instance.                                             *)
(***************************************************************************)
\* the architecture parameters each model record holds
ArchitectureParameters(cls) ==
    CASE cls = "PrecompensationUSRNet" ->
             {"n_iter", "h_nc", "in_nc", "out_nc", "nc", "nb"}
      [] cls = "PrecompensationDWDN" -> {"n_levels"}
      [] OTHER -> {}

\* C22 as stated: for every model configuration variant, the instance
\* returned by get_instance() is built with the architecture parameters held
\* in the record, both when path is None and when path is set.  Stated for
\* the parameters the raw record sets itself: each is handed to the
\* constructor with the record's value.
C22_InstanceBuiltFromRecord ==
    (cfg.kind = "config" /\ cfg.cls \in ModelClasses /\ instance # None) =>
        /\ instance.kind = "instance"
        /\ instance.type = ModelType(cfg.cls)
        /\ \A k \in ArchitectureParameters(cfg.cls) \cap DOMAIN rec :
              /\ k \in DOMAIN instance.kwargs
              /\ instance.kwargs[k] = cfg.fields[k]


(***************************************************************************)
(* Properties of the NormalizedRootMSE constructor.                        *)
(***************************************************************************)
\* the static method the lower-cased normalization names
NamedDenomFunction(normalization) ==
    CASE normalization = "euclidean" -> "_euclidean"
      [] normalization = "min-max" -> "_min_max"
      [] normalization = "mean" -> "_mean"

\* C23 as stated: for every string passed as normalization, the constructor
\* either raises ValueError or returns an instance whose denominator
\* function is the one named by the lower-cased normalization; no other
\* failure occurs.
C23_ConstructorRaisesOnlyValueError ==
    nrmse # None =>
        \/ nrmse = Error("ValueError")
        \/ /\ nrmse.kind = "NormalizedRootMSE"
           /\ nrmse.normalization \in {"euclidean", "min-max", "mean"}
           /\ nrmse.denom_function = NamedDenomFunction(nrmse.normalization)


(***************************************************************************)
(* Properties of the size of the SSIM index map.                           *)
(***************************************************************************)
\* C24 as stated: the SSIM index map keeps the spatial dimensions of its
\* input: for every kernel_size >= 1 and every 3-channel input of size H x W,
\* _ssim returns a map of spatial size H x W.
C24_MapKeepsSize ==
    (/\ SsimCalled
     /\ ssimIn.x.shape[2] = 3
     /\ ssimOut.kind = "tensor"
     /\ ~ssimOut.as_loss) =>
        /\ ssimOut.shape[3] = ssimIn.x.shape[3]
        /\ ssimOut.shape[4] = ssimIn.x.shape[4]


====
